---- MODULE Spec2Model ----
(***************************************************************************)
(* The differential fuzz target src/fuzz/fuzz_targets/smart_jit_diff.rs    *)
(* and the static byte code analysis of src/src/static_analysis.rs:        *)
(* Analysis::from_executable and the passes it runs                        *)
(*   split_into_basic_blocks, control_flow_graph_tarjan,                   *)
(*   control_flow_graph_dominance_hierarchy,                               *)
(*   intra_basic_block_data_flow, inter_basic_block_data_flow.             *)
(* Vec indices and instruction ranges keep the 0-based values of the code; *)
(* a TLA+ sequence s holds the element of index i at s[i + 1].             *)
(* label_basic_blocks only fills CfgNode::label, which no pass reads, and  *)
(* is left out.                                                            *)
(***************************************************************************)
EXTENDS Integers, Sequences, FiniteSets, TLC

VARIABLES
    executable,         \* the Executable: [text, bpf_functions, entrypoint]
    syscalls,           \* Analysis::syscalls, call immediate -> name
    instructions,       \* Analysis::instructions, the decoded instruction vector
    functions,          \* Analysis::functions, the keys (function entry pcs)
    cfg_nodes,          \* Analysis::cfg_nodes, block start pc -> CfgNode
    topological_order,  \* Analysis::topological_order
    entrypoint,         \* Analysis::entrypoint
    dfg_forward_edges,  \* Analysis::dfg_forward_edges, DfgNode -> set of DfgEdge
    dfg_reverse_edges,  \* Analysis::dfg_reverse_edges
    basic_block_outputs,\* the value intra_basic_block_data_flow returns
    flatten_call_graph, \* the argument split_into_basic_blocks was called with
    dom_run,            \* how often the dominator pass has been started
    dom_changed,        \* whether a pass of the current dominator run recorded a change
    dom_first,          \* dominator_parent of every block after the first run
    inter_passes,       \* iterations the while loop of inter_basic_block_data_flow has run
    pc,                 \* which pass runs next
    interp_res,         \* smart_jit_diff: result of execute_program_interpreted
    jit_res,            \* smart_jit_diff: result of execute_program_jit
    interp_meter,       \* smart_jit_diff: interp_meter.remaining
    jit_meter,          \* smart_jit_diff: jit_meter.remaining
    interp_mem,         \* smart_jit_diff: the interpreter's input region
    jit_mem,            \* smart_jit_diff: the JIT's input region
    fuzz_pc             \* smart_jit_diff: the statement the fuzz target is at

\* The variables of the fuzz target smart_jit_diff.
fuzz_vars == <<interp_res, jit_res, interp_meter, jit_meter, interp_mem, jit_mem,
               fuzz_pc>>

\* The variables of the Analysis.
analysis_vars == <<executable, syscalls, instructions, functions, cfg_nodes,
                   topological_order, entrypoint, dfg_forward_edges,
                   dfg_reverse_edges, basic_block_outputs, flatten_call_graph,
                   dom_run, dom_changed, dom_first, inter_passes, pc>>

vars == <<fuzz_vars, executable, syscalls, instructions, functions, cfg_nodes,
          topological_order, entrypoint, dfg_forward_edges, dfg_reverse_edges,
          basic_block_outputs, flatten_call_graph, dom_run, dom_changed,
          dom_first, inter_passes, pc>>

(***************************************************************************)
(* Bounds of the model.                                                    *)
(***************************************************************************)
\* Longest program the model enumerates exhaustively, in 8-byte slots.
MaxInsns == 2

(***************************************************************************)
(* usize::MAX, the "not assigned" value of CfgNode::default. The model     *)
(* narrows usize to the integers TLC has; no pc or id comes near it.       *)
(***************************************************************************)
USIZE_MAX == 2147483647

\* ebpf::FIRST_SCRATCH_REG and ebpf::SCRATCH_REGS, as static_analysis.rs uses them.
FIRST_SCRATCH_REG == 6
SCRATCH_REGS == 4

(***************************************************************************)
(* Generic helpers.                                                        *)
(***************************************************************************)
RECURSIVE SortedSeq(_)
\* The elements of a set of numbers in ascending order (BTreeMap iteration).
SortedSeq(S) ==
    IF S = {} THEN <<>>
    ELSE LET m == CHOOSE x \in S : \A y \in S : x <= y
         IN <<m>> \o SortedSeq(S \ {m})

\* The elements of a sequence.
Range(s) == {s[i] : i \in 1..Len(s)}

\* retain(): the subsequence of the elements of s that lie in S.
Retain(s, S) == SelectSeq(s, LAMBDA x : x \in S)

\* How often x occurs in the sequence s.
Count(s, x) == Cardinality({i \in 1..Len(s) : s[i] = x})

(***************************************************************************)
(* Opcodes (crate::ebpf), by the names static_analysis.rs matches on.      *)
(***************************************************************************)
CondJumpImm == {"JEQ_IMM", "JGT_IMM", "JGE_IMM", "JLT_IMM", "JLE_IMM", "JSET_IMM",
                "JNE_IMM", "JSGT_IMM", "JSGE_IMM", "JSLT_IMM", "JSLE_IMM"}
CondJumpReg == {"JEQ_REG", "JGT_REG", "JGE_REG", "JLT_REG", "JLE_REG", "JSET_REG",
                "JNE_REG", "JSGT_REG", "JSGE_REG", "JSLT_REG", "JSLE_REG"}
CondJump == CondJumpImm \cup CondJumpReg

\* An 8-byte slot of the text section.
Slot(opc, dst, src, off, imm) ==
    [opc |-> opc, dst |-> dst, src |-> src, off |-> off, imm |-> imm]

\* ebpf::get_insn_unchecked: the slot at insn_ptr, with its ptr.
get_insn_unchecked(program, insn_ptr) ==
    [ptr |-> insn_ptr,
     opc |-> program[insn_ptr + 1].opc,
     dst |-> program[insn_ptr + 1].dst,
     src |-> program[insn_ptr + 1].src,
     off |-> program[insn_ptr + 1].off,
     imm |-> program[insn_ptr + 1].imm]

RECURSIVE DecodeFrom(_, _, _)
\* The decoding loop of from_executable: LD_DW_IMM takes two slots, and is
\* dropped when its second slot is missing.
DecodeFrom(program, insn_ptr, acc) ==
    IF insn_ptr >= Len(program) THEN acc
    ELSE LET insn == get_insn_unchecked(program, insn_ptr)
         IN IF insn.opc = "LD_DW_IMM"
            THEN IF insn_ptr + 1 >= Len(program) THEN acc
                 ELSE DecodeFrom(program, insn_ptr + 2, Append(acc, insn))
            ELSE DecodeFrom(program, insn_ptr + 1, Append(acc, insn))

Decode(program) == DecodeFrom(program, 0, <<>>)

(***************************************************************************)
(* The Executable's function registry: function pc p is registered under   *)
(* the key FnKey(p), which CALL_IMM carries in imm.                        *)
(***************************************************************************)
\* Option::None of a pc, kept apart from every pc.
None == 0 - 1
\* The registry key of the function at pc p; the keys of the two syscalls.
FnKey(p) == 16 + p
AbortKey == 1
LogKey == 2

\* Executable::lookup_bpf_function
lookup_bpf_function(imm) ==
    IF \E p \in executable.bpf_functions : FnKey(p) = imm
    THEN CHOOSE p \in executable.bpf_functions : FnKey(p) = imm
    ELSE None

(***************************************************************************)
(* CfgNode                                                                 *)
(***************************************************************************)
\* CfgNode::default
CfgNodeDefault ==
    [sources |-> <<>>, destinations |-> <<>>,
     instructions |-> [start |-> 0, end |-> 0],
     scc_id |-> USIZE_MAX, index_in_scc |-> USIZE_MAX,
     dominator_parent |-> USIZE_MAX, dominated_children |-> <<>>]

(***************************************************************************)
(* split_into_basic_blocks                                                 *)
(***************************************************************************)
\* The pcs of the decoded instructions.
InsnPtrs == {instructions[i].ptr : i \in 1..Len(instructions)}

\* (insn.ptr as isize + insn.off as isize + 1) as usize: a negative sum wraps
\* to the top of usize.
target_pc(insn) ==
    LET t == insn.ptr + insn.off + 1
    IN IF t < 0 THEN USIZE_MAX + (t + 1) ELSE t

\* Whether a CALL_IMM names the syscall "abort".
IsAbortCall(insn) ==
    /\ insn.imm \in DOMAIN syscalls
    /\ syscalls[insn.imm] = "abort"

\* Whether a CALL_IMM names a function of the executable and not a syscall.
IsInternalCall(insn) ==
    /\ insn.imm \notin DOMAIN syscalls
    /\ lookup_bpf_function(insn.imm) # None

\* A variant that inserts no node behind a call of the syscall "abort".
NodeStartsOfNoAbort(insn) ==
    CASE insn.opc = "CALL_IMM" ->
            IF IsAbortCall(insn) THEN {}
            ELSE IF IsInternalCall(insn)
                 THEN {insn.ptr + 1, lookup_bpf_function(insn.imm)}
                 ELSE {}
      [] insn.opc \in {"CALL_REG", "EXIT"} -> {insn.ptr + 1}
      [] insn.opc = "JA" \/ insn.opc \in CondJump -> {insn.ptr + 1, target_pc(insn)}
      [] OTHER -> {}

\* The cfg_nodes.entry(..).or_insert_with(..) keys of one instruction.
NodeStartsOf(insn) ==
    CASE insn.opc = "CALL_IMM" ->
            IF IsAbortCall(insn) THEN {insn.ptr + 1}
            ELSE IF IsInternalCall(insn)
                 THEN {insn.ptr + 1, lookup_bpf_function(insn.imm)}
                 ELSE {}
      [] insn.opc \in {"CALL_REG", "EXIT"} -> {insn.ptr + 1}
      [] insn.opc = "JA" \/ insn.opc \in CondJump -> {insn.ptr + 1, target_pc(insn)}
      [] OTHER -> {}

\* Whether the instruction inserts an entry into cfg_edges.
HasCfgEdge(insn) ==
    CASE insn.opc = "CALL_IMM" -> IsAbortCall(insn) \/ IsInternalCall(insn)
      [] insn.opc \in {"CALL_REG", "EXIT", "JA"} -> TRUE
      [] insn.opc \in CondJump -> TRUE
      [] OTHER -> FALSE

\* The destinations the instruction inserts into cfg_edges.
CfgEdgeOf(insn, flatten) ==
    CASE insn.opc = "CALL_IMM" ->
            IF IsAbortCall(insn) THEN <<>>
            ELSE IF flatten THEN <<insn.ptr + 1, lookup_bpf_function(insn.imm)>>
                 ELSE <<insn.ptr + 1>>
      [] insn.opc = "CALL_REG" -> <<insn.ptr + 1>>
      [] insn.opc = "EXIT" -> <<>>
      [] insn.opc = "JA" -> <<target_pc(insn)>>
      [] OTHER -> <<insn.ptr + 1, target_pc(insn)>>

\* The keys of cfg_nodes after the first loops, before the filter.
RawNodeStarts ==
    functions \cup UNION {NodeStartsOf(instructions[i]) : i \in 1..Len(instructions)}

\* A variant without the filter on cfg_nodes.
NodeStartsUnfiltered == RawNodeStarts

\* The filter on cfg_nodes: a key stays when it is the ptr of an instruction.
NodeStarts == {s \in RawNodeStarts : s \in InsnPtrs}

\* The filter on functions.
FilteredFunctions == {f \in functions : f \in NodeStarts}

\* FilteredCfgEdges without the retain() of the destinations.
UnfilteredCfgEdges(flatten) ==
    [p \in {instructions[i].ptr : i \in {j \in 1..Len(instructions) : HasCfgEdge(instructions[j])}} |->
        LET insn == CHOOSE x \in Range(instructions) : x.ptr = p
        IN CfgEdgeOf(insn, flatten)]

\* cfg_edges after retain(): instruction ptr -> destinations.
FilteredCfgEdges(flatten) ==
    [p \in {instructions[i].ptr : i \in {j \in 1..Len(instructions) : HasCfgEdge(instructions[j])}} |->
        LET insn == CHOOSE x \in Range(instructions) : x.ptr = p
        IN Retain(CfgEdgeOf(insn, flatten), NodeStarts)]

RECURSIVE AdvanceIndexStrict(_, _)
\* AdvanceIndex with the comparison ptr < cfg_node_end.
AdvanceIndexStrict(instruction_index, cfg_node_end) ==
    IF /\ instruction_index < Len(instructions)
       /\ instructions[instruction_index + 1].ptr < cfg_node_end
    THEN AdvanceIndexStrict(instruction_index + 1, cfg_node_end)
    ELSE instruction_index

\* The inner while loop: the index after the instructions with ptr <= cfg_node_end.
RECURSIVE AdvanceIndex(_, _)
AdvanceIndex(instruction_index, cfg_node_end) ==
    IF /\ instruction_index < Len(instructions)
       /\ instructions[instruction_index + 1].ptr <= cfg_node_end
    THEN AdvanceIndex(instruction_index + 1, cfg_node_end)
    ELSE instruction_index

\* The destinations a block gets when no cfg_edge is taken for it.
FallthroughDestinations(cfg_node_start, has_next, next_start, old) ==
    IF has_next /\ cfg_node_start \notin FilteredFunctions
    THEN Append(old, next_start)
    ELSE old

RECURSIVE BlockWalk(_, _, _, _, _, _)
\* The loop over cfg_node_iter: gives every node its instruction range and
\* its destinations. keys and ekeys are the sorted keys of cfg_nodes and
\* cfg_edges, i and e the (1-based) positions of the two iterators.
BlockWalk(keys, ekeys, edges, i, e, st) ==
    IF i > Len(keys) THEN st.nodes
    ELSE LET cfg_node_start == keys[i]
             has_next == i < Len(keys)
             cfg_node_end == IF has_next THEN keys[i + 1] - 1
                             ELSE instructions[Len(instructions)].ptr
             start == st.instruction_index
             next_index == AdvanceIndex(start, cfg_node_end)
             old == st.nodes[cfg_node_start]
             range == [start |-> start,
                       end |-> IF next_index > start THEN next_index
                               ELSE old.instructions.end]
             take == e <= Len(ekeys) /\ ekeys[e] <= cfg_node_end
             dests == IF take THEN edges[ekeys[e]]
                      ELSE FallthroughDestinations(cfg_node_start, has_next,
                               IF has_next THEN keys[i + 1] ELSE 0,
                               old.destinations)
             node == [old EXCEPT !.instructions = range, !.destinations = dests]
         IN BlockWalk(keys, ekeys, edges, i + 1, IF take THEN e + 1 ELSE e,
                      [instruction_index |-> next_index,
                       nodes |-> [st.nodes EXCEPT ![cfg_node_start] = node]])

RECURSIVE PushSourcesOnce(_, _, _)
\* A variant that does not push a source a destination already has.
PushSourcesOnce(nodes, source, destinations) ==
    IF destinations = <<>> THEN nodes
    ELSE LET d == Head(destinations)
         IN PushSourcesOnce(
                IF source \in Range(nodes[d].sources) THEN nodes
                ELSE [nodes EXCEPT ![d].sources = Append(nodes[d].sources, source)],
                source, Tail(destinations))

RECURSIVE PushSources(_, _, _)
\* The inner loop of link_cfg_edges: push source onto the sources of every
\* destination, in order.
PushSources(nodes, source, destinations) ==
    IF destinations = <<>> THEN nodes
    ELSE LET d == Head(destinations)
         IN PushSources(
                [nodes EXCEPT ![d].sources = Append(nodes[d].sources, source)],
                source, Tail(destinations))

RECURSIVE link_cfg_edges(_, _, _)
\* link_cfg_edges: cfg_edges is a sequence of <<source, destinations>>.
link_cfg_edges(nodes, cfg_edges, both_directions) ==
    IF cfg_edges = <<>> THEN nodes
    ELSE LET source == Head(cfg_edges)[1]
             destinations == Head(cfg_edges)[2]
             n1 == IF both_directions
                   THEN [nodes EXCEPT ![source].destinations = destinations]
                   ELSE nodes
         IN link_cfg_edges(PushSources(n1, source, destinations),
                           Tail(cfg_edges), both_directions)

\* Whether link_cfg_edges would unwrap() a missing node.
LinkPanics(nodes, cfg_edges) ==
    \E k \in 1..Len(cfg_edges) :
        \/ cfg_edges[k][1] \notin DOMAIN nodes
        \/ \E d \in Range(cfg_edges[k][2]) : d \notin DOMAIN nodes

\* The edges the first call of link_cfg_edges gets: every node with its destinations.
AllCfgEdges(nodes, keys) ==
    [k \in 1..Len(keys) |-> <<keys[k], nodes[keys[k]].destinations>>]

\* The return addresses of a function: for every source of its entry block,
\* the ptr of the instruction behind that source's block. Indexing behind the
\* last instruction panics.
ReturnAddresses(nodes, cfg_node) ==
    [k \in 1..Len(cfg_node.sources) |->
        LET idx == nodes[cfg_node.sources[k]].instructions.end
        IN IF idx < Len(instructions) THEN instructions[idx + 1].ptr ELSE None]

RECURSIVE FlattenWalk(_, _, _, _, _)
\* The loop of the flatten_call_graph branch: the edges it collects for the
\* second call of link_cfg_edges, and whether an index was out of range.
FlattenWalk(nodes, keys, i, destinations, cfg_edges) ==
    IF i > Len(keys) THEN [panic |-> FALSE, cfg_edges |-> cfg_edges]
    ELSE LET source == keys[i]
             cfg_node == nodes[source]
             dests == IF source \in FilteredFunctions
                      THEN ReturnAddresses(nodes, cfg_node)
                      ELSE destinations
         IN IF None \in Range(dests) THEN [panic |-> TRUE, cfg_edges |-> cfg_edges]
            ELSE IF /\ cfg_node.destinations = <<>>
                    /\ instructions[cfg_node.instructions.end].opc = "EXIT"
                 THEN FlattenWalk(nodes, keys, i + 1, dests,
                                  Append(cfg_edges, <<source, dests>>))
                 ELSE FlattenWalk(nodes, keys, i + 1, dests, cfg_edges)

\* split_into_basic_blocks on a fresh Analysis: whether the call panics, and
\* the cfg_nodes it leaves.
split_into_basic_blocks(flatten) ==
    LET keys == SortedSeq(NodeStarts)
        edges == FilteredCfgEdges(flatten)
        ekeys == SortedSeq(DOMAIN edges)
        fresh == [s \in NodeStarts |-> CfgNodeDefault]
        walked == BlockWalk(keys, ekeys, edges, 1, 1,
                            [instruction_index |-> 0, nodes |-> fresh])
        linked == link_cfg_edges(walked, AllCfgEdges(walked, keys), FALSE)
    IN IF ~flatten THEN [panic |-> FALSE, nodes |-> linked]
       ELSE LET more == FlattenWalk(linked, keys, 1, <<>>, <<>>)
            IN IF more.panic \/ LinkPanics(linked, more.cfg_edges)
               THEN [panic |-> TRUE, nodes |-> linked]
               ELSE [panic |-> FALSE,
                     nodes |-> link_cfg_edges(linked, more.cfg_edges, TRUE)]

(***************************************************************************)
(* control_flow_graph_tarjan                                               *)
(***************************************************************************)
\* The smaller of two numbers (usize::min).
Min(a, b) == IF a < b THEN a ELSE b

\* The index v that the enumerate() of cfg_nodes gives the node of a key
\* (the code keeps it in cfg_node.scc_id during the search).
NodeIndex(keys, key) == (CHOOSE k \in 1..Len(keys) : keys[k] = key) - 1

\* The NodeState vector before the search.
TarjanNodes(keys) ==
    [k \in 1..Len(keys) |->
        [cfg_node |-> keys[k], discovery |-> USIZE_MAX, lowlink |-> USIZE_MAX,
         scc_id |-> USIZE_MAX, is_on_scc_stack |-> FALSE]]

RECURSIVE ScanEdgesNoLowlink(_, _, _, _, _)
\* ScanEdges that never lowers the lowlink of v.
ScanEdgesNoLowlink(nodes, keys, dests, v, j) ==
    IF j >= Len(dests) THEN [descend |-> FALSE, j |-> j, w |-> 0, nodes |-> nodes]
    ELSE LET w == NodeIndex(keys, dests[j + 1])
         IN IF nodes[w + 1].discovery = USIZE_MAX
            THEN [descend |-> TRUE, j |-> j, w |-> w, nodes |-> nodes]
            ELSE ScanEdgesNoLowlink(nodes, keys, dests, v, j + 1)

RECURSIVE ScanEdges(_, _, _, _, _)
\* The for loop over the destinations of v from edge index j: either it
\* stops at an undiscovered w (descend), or it ends with the lowlink of v
\* lowered by the discovered destinations that are on the SCC stack.
ScanEdges(nodes, keys, dests, v, j) ==
    IF j >= Len(dests) THEN [descend |-> FALSE, j |-> j, w |-> 0, nodes |-> nodes]
    ELSE LET w == NodeIndex(keys, dests[j + 1])
         IN IF nodes[w + 1].discovery = USIZE_MAX
            THEN [descend |-> TRUE, j |-> j, w |-> w, nodes |-> nodes]
            ELSE IF nodes[w + 1].is_on_scc_stack
                 THEN ScanEdges(
                        [nodes EXCEPT ![v + 1].lowlink =
                            Min(nodes[v + 1].lowlink, nodes[w + 1].discovery)],
                        keys, dests, v, j + 1)
                 ELSE ScanEdges(nodes, keys, dests, v, j + 1)

RECURSIVE PopSccFirstId(_, _, _, _, _)
\* A variant that gives every SCC the id 0.
PopSccFirstId(nodes, scc_stack, v, scc_id, index_in_scc) ==
    IF scc_stack = <<>> THEN [nodes |-> nodes, scc_stack |-> scc_stack]
    ELSE LET w == scc_stack[Len(scc_stack)]
             rest == SubSeq(scc_stack, 1, Len(scc_stack) - 1)
             n1 == [nodes EXCEPT ![w + 1].is_on_scc_stack = FALSE,
                                 ![w + 1].scc_id = 0,
                                 ![w + 1].discovery = index_in_scc]
         IN IF w = v THEN [nodes |-> n1, scc_stack |-> rest]
            ELSE PopSccFirstId(n1, rest, v, scc_id, index_in_scc + 1)

RECURSIVE PopScc(_, _, _, _, _)
\* The while loop that pops one SCC off scc_stack, down to and with v.
PopScc(nodes, scc_stack, v, scc_id, index_in_scc) ==
    IF scc_stack = <<>> THEN [nodes |-> nodes, scc_stack |-> scc_stack]
    ELSE LET w == scc_stack[Len(scc_stack)]
             rest == SubSeq(scc_stack, 1, Len(scc_stack) - 1)
             n1 == [nodes EXCEPT ![w + 1].is_on_scc_stack = FALSE,
                                 ![w + 1].scc_id = scc_id,
                                 ![w + 1].discovery = index_in_scc]
         IN IF w = v THEN [nodes |-> n1, scc_stack |-> rest]
            ELSE PopScc(n1, rest, v, scc_id, index_in_scc + 1)

RECURSIVE NextUndiscovered(_, _)
\* The loop that looks for the next root: the first next_v >= the given one
\* that is not discovered, or the number of nodes.
NextUndiscovered(nodes, next_v) ==
    IF next_v = Len(nodes) THEN next_v
    ELSE IF nodes[next_v + 1].discovery = USIZE_MAX THEN next_v
         ELSE NextUndiscovered(nodes, next_v + 1)

\* The first recursion_stack entry: the search starts at the node of index 0.
TarjanStart(keys) ==
    [nodes |-> TarjanNodes(keys), scc_id |-> 0, scc_stack |-> <<>>,
     discovered |-> 0, next_v |-> 1, recursion_stack |-> <<<<0, 0>>>>]

RECURSIVE TarjanDfs(_, _)
\* The 'dfs loop: one call is one iteration. Gives the NodeState vector the
\* loop ends with.
TarjanDfs(keys, st) ==
    IF st.recursion_stack = <<>> THEN st.nodes
    ELSE
    LET top == st.recursion_stack[Len(st.recursion_stack)]
        stack0 == SubSeq(st.recursion_stack, 1, Len(st.recursion_stack) - 1)
        v == top[1]
        edge_index == top[2]
        first == edge_index = 0
        n0 == IF first
              THEN [st.nodes EXCEPT ![v + 1].discovery = st.discovered,
                                    ![v + 1].lowlink = st.discovered,
                                    ![v + 1].is_on_scc_stack = TRUE]
              ELSE st.nodes
        scc_stack0 == IF first THEN Append(st.scc_stack, v) ELSE st.scc_stack
        discovered0 == IF first THEN st.discovered + 1 ELSE st.discovered
        dests == cfg_nodes[n0[v + 1].cfg_node].destinations
        scan == ScanEdges(n0, keys, dests, v, edge_index)
    IN IF scan.descend
       THEN TarjanDfs(keys,
                [st EXCEPT !.nodes = scan.nodes, !.scc_stack = scc_stack0,
                           !.discovered = discovered0,
                           !.recursion_stack =
                               stack0 \o <<<<v, scan.j + 1>>, <<scan.w, 0>>>>])
       ELSE
       LET root == scan.nodes[v + 1].discovery = scan.nodes[v + 1].lowlink
           popped == IF root
                     THEN PopScc(scan.nodes, scc_stack0, v, st.scc_id, 0)
                     ELSE [nodes |-> scan.nodes, scc_stack |-> scc_stack0]
           scc_id1 == IF root THEN st.scc_id + 1 ELSE st.scc_id
       IN IF stack0 # <<>>
          THEN LET w == stack0[Len(stack0)][1]
               IN TarjanDfs(keys,
                     [nodes |-> [popped.nodes EXCEPT ![w + 1].lowlink =
                                    Min(popped.nodes[w + 1].lowlink,
                                        popped.nodes[v + 1].lowlink)],
                      scc_id |-> scc_id1, scc_stack |-> popped.scc_stack,
                      discovered |-> discovered0, next_v |-> st.next_v,
                      recursion_stack |-> stack0])
          ELSE LET next_v == NextUndiscovered(popped.nodes, st.next_v)
               IN IF next_v = Len(popped.nodes) THEN popped.nodes
                  ELSE TarjanDfs(keys,
                         [nodes |-> popped.nodes, scc_id |-> scc_id1,
                          scc_stack |-> popped.scc_stack,
                          discovered |-> discovered0, next_v |-> next_v + 1,
                          recursion_stack |-> <<<<next_v, 0>>>>])

\* The copy of scc_id and index_in_scc from the NodeState vector to cfg_nodes.
WithSccIds(keys, nodes) ==
    [s \in DOMAIN cfg_nodes |->
        LET n == nodes[NodeIndex(keys, s) + 1]
        IN [cfg_nodes[s] EXCEPT !.scc_id = n.scc_id, !.index_in_scc = n.discovery]]

\* control_flow_graph_order with the operands of the comparisons swapped.
control_flow_graph_order_swapped(nodes, a, b) ==
    IF nodes[a].scc_id < nodes[b].scc_id THEN "Less"
    ELSE IF nodes[a].scc_id > nodes[b].scc_id THEN "Greater"
    ELSE IF nodes[a].index_in_scc < nodes[b].index_in_scc THEN "Less"
    ELSE IF nodes[a].index_in_scc > nodes[b].index_in_scc THEN "Greater"
    ELSE "Equal"

\* control_flow_graph_order(a, b) over the given cfg_nodes:
\* b.scc_id.cmp(a.scc_id).then(b.index_in_scc.cmp(a.index_in_scc)).
control_flow_graph_order(nodes, a, b) ==
    IF nodes[b].scc_id < nodes[a].scc_id THEN "Less"
    ELSE IF nodes[b].scc_id > nodes[a].scc_id THEN "Greater"
    ELSE IF nodes[b].index_in_scc < nodes[a].index_in_scc THEN "Less"
    ELSE IF nodes[b].index_in_scc > nodes[a].index_in_scc THEN "Greater"
    ELSE "Equal"

\* sort_by (a stable sort) of the keys by control_flow_graph_order: a key
\* stands behind the keys that compare Less to it and the smaller keys that
\* compare Equal.
SortedByOrder(nodes, keys) ==
    LET before(a) == {b \in Range(keys) :
                        \/ control_flow_graph_order(nodes, b, a) = "Less"
                        \/ /\ control_flow_graph_order(nodes, b, a) = "Equal"
                           /\ b < a}
    IN [k \in 1..Len(keys) |->
            CHOOSE a \in Range(keys) : Cardinality(before(a)) = k - 1]

(***************************************************************************)
(* control_flow_graph_dominance_hierarchy                                  *)
(***************************************************************************)
RECURSIVE Intersect(_, _, _, _)
\* The while loop that walks dominator_parent and p up the dominator tree
\* until they meet. It gives the block where they meet; "hang" when the walk
\* cannot end (after more steps than there are pairs of blocks, it repeats);
\* "panic" when it indexes cfg_nodes with usize::MAX or reaches unreachable!().
Intersect(nodes, dominator_parent, p, fuel) ==
    IF dominator_parent = p THEN [end |-> "ok", at |-> p]
    ELSE IF dominator_parent \notin DOMAIN nodes \/ p \notin DOMAIN nodes
         THEN [end |-> "panic", at |-> p]
    ELSE IF fuel = 0 THEN [end |-> "hang", at |-> p]
    ELSE LET order == control_flow_graph_order(nodes, dominator_parent, p)
         IN IF order = "Greater"
            THEN Intersect(nodes, nodes[dominator_parent].dominator_parent, p, fuel - 1)
            ELSE IF order = "Less"
                 THEN Intersect(nodes, dominator_parent, nodes[p].dominator_parent, fuel - 1)
                 ELSE [end |-> "panic", at |-> p]

\* More steps than the walk of Intersect has states.
IntersectFuel(nodes) == Cardinality(DOMAIN nodes) * Cardinality(DOMAIN nodes) + 1

RECURSIVE OverSources(_, _, _, _)
\* The for loop over the sources of a block, from the k-th on, with the
\* dominator_parent found so far.
OverSources(nodes, sources, k, dominator_parent) ==
    IF k > Len(sources) THEN [end |-> "ok", at |-> dominator_parent]
    ELSE LET p == sources[k]
         IN IF nodes[p].dominator_parent = USIZE_MAX
            THEN OverSources(nodes, sources, k + 1, dominator_parent)
            ELSE IF dominator_parent = USIZE_MAX
                 THEN OverSources(nodes, sources, k + 1, p)
                 ELSE LET met == Intersect(nodes, dominator_parent, p,
                                           IntersectFuel(nodes))
                      IN IF met.end = "ok"
                         THEN OverSources(nodes, sources, k + 1, met.at)
                         ELSE met

\* The dominator_parent one pass computes for block b.
NewDominatorParent(nodes, b) ==
    IF nodes[b].sources = <<>> THEN [end |-> "ok", at |-> b]
    ELSE LET found == OverSources(nodes, nodes[b].sources, 1, USIZE_MAX)
         IN IF found.end = "ok" /\ found.at = USIZE_MAX
            THEN [end |-> "ok", at |-> b]
            ELSE found

RECURSIVE DominancePass(_, _, _, _)
\* One pass of the loop over topological_order, from its k-th block on:
\* the cfg_nodes it leaves, whether it kept terminate true, and how it ended.
DominancePass(nodes, order, k, terminate) ==
    IF k > Len(order) THEN [end |-> "ok", nodes |-> nodes, terminate |-> terminate]
    ELSE LET b == order[k]
             found == NewDominatorParent(nodes, b)
         IN IF found.end # "ok"
            THEN [end |-> found.end, nodes |-> nodes, terminate |-> terminate]
            ELSE IF nodes[b].dominator_parent # found.at
                 THEN DominancePass(
                        [nodes EXCEPT ![b].dominator_parent = found.at],
                        order, k + 1, FALSE)
                 ELSE DominancePass(nodes, order, k + 1, terminate)

RECURSIVE PushChildrenWithSelf(_, _, _)
\* A variant that also pushes a block that is its own dominator_parent.
PushChildrenWithSelf(nodes, order, k) ==
    IF k > Len(order) THEN nodes
    ELSE LET b == order[k]
             p == nodes[b].dominator_parent
         IN PushChildrenWithSelf(
                [nodes EXCEPT ![p].dominated_children =
                    Append(nodes[p].dominated_children, b)],
                order, k + 1)

RECURSIVE PushChildren(_, _, _)
\* The last loop: every block that is not its own dominator_parent is pushed
\* onto the dominated_children of its dominator_parent.
PushChildren(nodes, order, k) ==
    IF k > Len(order) THEN nodes
    ELSE LET b == order[k]
             p == nodes[b].dominator_parent
         IN IF b = p THEN PushChildren(nodes, order, k + 1)
            ELSE PushChildren(
                    [nodes EXCEPT ![p].dominated_children =
                        Append(nodes[p].dominated_children, b)],
                    order, k + 1)

(***************************************************************************)
(* DfgNode, DataResource, DfgEdge                                          *)
(***************************************************************************)
InstructionNode(ptr) == <<"InstructionNode", ptr>>
PhiNode(start) == <<"PhiNode", start>>
Register(r) == <<"Register", r>>
Memory == <<"Memory">>

DfgEdge(source, destination, kind, resource) ==
    [source |-> source, destination |-> destination, kind |-> kind,
     resource |-> resource]

\* entry(key).or_insert_with(BTreeSet::new).insert(edge) on a map of edge sets.
InsertEdge(map, key, edge) ==
    IF key \in DOMAIN map THEN [map EXCEPT ![key] = @ \cup {edge}]
    ELSE map @@ (key :> {edge})

(***************************************************************************)
(* intra_basic_block_data_flow                                             *)
(***************************************************************************)
\* A variant whose range runs over the scratch registers as well.
CallRegistersWithScratch == <<0, 1, 2, 3, 4, 5, 6, 7, 8, 9, 10>>

\* The registers a call reads and writes and an exit reads:
\* (0..FIRST_SCRATCH_REG).chain([10]).
CallRegisters == <<0, 1, 2, 3, 4, 5, 10>>

\* The bind() calls of one instruction, in order: <<is_output, resource>>.
Binds(insn) ==
    LET r(x) == <<FALSE, x>>
        w(x) == <<TRUE, x>>
        dst == Register(insn.dst)
        src == Register(insn.src)
        o == insn.opc
    IN CASE o \in {"LD_ABS_B", "LD_ABS_H", "LD_ABS_W", "LD_ABS_DW"} ->
                <<w(Register(0))>>
         [] o \in {"LD_IND_B", "LD_IND_H", "LD_IND_W", "LD_IND_DW"} ->
                <<r(src), w(Register(0))>>
         [] o = "LD_DW_IMM" -> <<w(dst)>>
         [] o \in {"LD_B_REG", "LD_H_REG", "LD_W_REG", "LD_DW_REG"} ->
                <<r(Memory), r(src), w(dst)>>
         [] o \in {"ST_B_IMM", "ST_H_IMM", "ST_W_IMM", "ST_DW_IMM"} ->
                <<r(dst), w(Memory)>>
         [] o \in {"ST_B_REG", "ST_H_REG", "ST_W_REG", "ST_DW_REG"} ->
                <<r(src), r(dst), w(Memory)>>
         [] o \in {"ADD32_IMM", "SUB32_IMM", "MUL32_IMM", "DIV32_IMM", "OR32_IMM",
                   "AND32_IMM", "LSH32_IMM", "RSH32_IMM", "MOD32_IMM", "XOR32_IMM",
                   "ARSH32_IMM", "ADD64_IMM", "SUB64_IMM", "MUL64_IMM", "DIV64_IMM",
                   "OR64_IMM", "AND64_IMM", "LSH64_IMM", "RSH64_IMM", "MOD64_IMM",
                   "XOR64_IMM", "ARSH64_IMM", "NEG32", "NEG64", "LE", "BE"} ->
                <<r(dst), w(dst)>>
         [] o \in {"MOV32_IMM", "MOV64_IMM"} -> <<w(dst)>>
         [] o \in {"ADD32_REG", "SUB32_REG", "MUL32_REG", "DIV32_REG", "OR32_REG",
                   "AND32_REG", "LSH32_REG", "RSH32_REG", "MOD32_REG", "XOR32_REG",
                   "ARSH32_REG", "ADD64_REG", "SUB64_REG", "MUL64_REG", "DIV64_REG",
                   "OR64_REG", "AND64_REG", "LSH64_REG", "RSH64_REG", "MOD64_REG",
                   "XOR64_REG", "ARSH64_REG"} ->
                <<r(src), r(dst), w(dst)>>
         [] o \in {"MOV32_REG", "MOV64_REG"} -> <<r(src), w(dst)>>
         [] o \in CondJumpImm -> <<r(dst)>>
         [] o \in CondJumpReg -> <<r(src), r(dst)>>
         [] o \in {"CALL_REG", "CALL_IMM"} ->
                (IF /\ o = "CALL_REG"
                    /\ insn.imm \notin
                          FIRST_SCRATCH_REG..(FIRST_SCRATCH_REG + SCRATCH_REGS - 1)
                 THEN <<r(Register(insn.imm % 256))>> ELSE <<>>)
                \o <<r(Memory), w(Memory)>>
                \o [k \in 1..(2 * Len(CallRegisters)) |->
                        IF k % 2 = 1 THEN r(Register(CallRegisters[(k + 1) \div 2]))
                        ELSE w(Register(CallRegisters[k \div 2]))]
         [] o = "EXIT" ->
                <<r(Memory)>> \o [k \in 1..Len(CallRegisters) |-> r(Register(CallRegisters[k]))]
         [] OTHER -> <<>>

\* A variant that records the instruction as the writer of the resource on
\* every bind(), whether is_output or not.
bindEveryAccessWrites(state, insn, is_output, resource) ==
    LET kind == IF is_output THEN "Empty" ELSE "Filled"
        source == IF resource \in DOMAIN state.writers
                  THEN InstructionNode(state.writers[resource])
                  ELSE PhiNode(state.start)
        destination == InstructionNode(insn.ptr)
        edges == InsertEdge(state.edges, source,
                            DfgEdge(source, destination, kind, resource))
    IN [start |-> state.start,
        edges |-> edges,
        writers |-> IF resource \in DOMAIN state.writers
                    THEN [state.writers EXCEPT ![resource] = insn.ptr]
                    ELSE state.writers @@ (resource :> insn.ptr)]

\* bind(): state is [start, edges, writers], the tuple of the code.
bind(state, insn, is_output, resource) ==
    LET kind == IF is_output THEN "Empty" ELSE "Filled"
        source == IF resource \in DOMAIN state.writers
                  THEN InstructionNode(state.writers[resource])
                  ELSE PhiNode(state.start)
        destination == InstructionNode(insn.ptr)
        edges == InsertEdge(state.edges, source,
                            DfgEdge(source, destination, kind, resource))
    IN [start |-> state.start,
        edges |-> edges,
        writers |-> IF is_output
                    THEN IF resource \in DOMAIN state.writers
                         THEN [state.writers EXCEPT ![resource] = insn.ptr]
                         ELSE state.writers @@ (resource :> insn.ptr)
                    ELSE state.writers]

RECURSIVE BindInsn(_, _, _, _)
\* The bind() calls of one instruction from the k-th on.  state.start is the
\* key of the block being walked; reading it evaluates the state the previous
\* bind() left before the next bind() starts.
BindInsn(state, insn, binds, k) ==
    IF k > Len(binds) \/ state.start \notin DOMAIN cfg_nodes THEN state
    ELSE BindInsn(bind(state, insn, binds[k][1], binds[k][2]), insn, binds, k + 1)

RECURSIVE BindBlock(_, _, _)
\* The loop over the instructions of a block, from index i to before end.
BindBlock(state, i, end) ==
    IF i >= end \/ state.start \notin DOMAIN cfg_nodes THEN state
    ELSE BindBlock(BindInsn(state, instructions[i + 1], Binds(instructions[i + 1]), 1),
                   i + 1, end)

RECURSIVE IntraBlocksKeepWriters(_, _, _, _)
\* A variant without the swap of the writers map: every block starts from
\* the writers the block before it left.
IntraBlocksKeepWriters(keys, k, edges, outputs) ==
    IF k > Len(keys) THEN [edges |-> edges, outputs |-> outputs]
    ELSE LET basic_block_start == keys[k]
             range == cfg_nodes[basic_block_start].instructions
             state == BindBlock([start |-> basic_block_start, edges |-> edges,
                                 writers |-> IF k = 1 THEN << >>
                                             ELSE outputs[keys[k - 1]]],
                                range.start, range.end)
         IN IntraBlocksKeepWriters(keys, k + 1, state.edges,
                                   outputs @@ (basic_block_start :> state.writers))

RECURSIVE IntraBlocks(_, _, _, _)
\* The map() over cfg_nodes from the k-th key on: the edges and the outputs
\* of every block; the writers start empty in every block.
IntraBlocks(keys, k, edges, outputs) ==
    IF k > Len(keys) THEN [edges |-> edges, outputs |-> outputs]
    ELSE LET basic_block_start == keys[k]
             range == cfg_nodes[basic_block_start].instructions
             state == BindBlock([start |-> basic_block_start, edges |-> edges,
                                 writers |-> << >>],
                                range.start, range.end)
         IN IntraBlocks(keys, k + 1, state.edges,
                        outputs @@ (basic_block_start :> state.writers))

\* intra_basic_block_data_flow: dfg_forward_edges and the returned outputs.
intra_basic_block_data_flow ==
    IntraBlocks(SortedSeq(DOMAIN cfg_nodes), 1, << >>, << >>)

(***************************************************************************)
(* inter_basic_block_data_flow                                             *)
(***************************************************************************)
\* The key an edge of block b is inserted under for one predecessor: the
\* writer of the resource in the predecessor's outputs, else its phi node.
ProviderOf(outputs, predecessor, edge) ==
    IF edge.resource \in DOMAIN outputs[predecessor]
    THEN InstructionNode(outputs[predecessor][edge.resource])
    ELSE PhiNode(predecessor)

\* A variant that redirects the edge to the phi node whatever the number of
\* sources.
PropagatedEdgeAlwaysPhi(nodes, basic_block_start, edge) ==
    [edge EXCEPT !.destination = PhiNode(basic_block_start)]

\* The edge that is inserted: its destination becomes the phi node of the
\* block unless the block has exactly one source.
PropagatedEdge(nodes, basic_block_start, edge) ==
    IF Len(nodes[basic_block_start].sources) # 1
    THEN [edge EXCEPT !.destination = PhiNode(basic_block_start)]
    ELSE edge

\* Inserts a set of <<key, edge>> pairs into a map of edge sets: every key
\* gets the edges it had and the edges of its pairs, in whatever order the
\* pairs are inserted.
InsertAll(map, pairs) ==
    [key \in DOMAIN map \cup {pair[1] : pair \in pairs} |->
        (IF key \in DOMAIN map THEN map[key] ELSE {})
            \cup {pair[2] : pair \in {p \in pairs : p[1] = key}}]

\* A variant that sets continue_propagation for every edge it inserts under
\* the phi node of another block, whether or not the edge is new.
PropagateBlockAlwaysContinue(nodes, outputs, forward, basic_block_start) ==
    LET phi == PhiNode(basic_block_start)
        edges == forward[phi]
        taken == [forward EXCEPT ![phi] = {}]
        pairs == {<<ProviderOf(outputs, predecessor, edge),
                    PropagatedEdge(nodes, basic_block_start, edge)>> :
                     predecessor \in Range(nodes[basic_block_start].sources),
                     edge \in edges}
        inserted == InsertAll(taken, pairs)
        reflective == inserted[phi]
    IN [forward |-> [inserted EXCEPT ![phi] = edges \cup reflective],
        continue_propagation |->
            \/ \E pair \in pairs : pair[1][1] = "PhiNode" /\ pair[1] # phi
            \/ reflective \ edges # {}]

\* The body of the for loop for one block that has a phi key: the new
\* forward edges and whether continue_propagation was set.
PropagateBlock(nodes, outputs, forward, basic_block_start) ==
    LET phi == PhiNode(basic_block_start)
        edges == forward[phi]
        taken == [forward EXCEPT ![phi] = {}]
        pairs == {<<ProviderOf(outputs, predecessor, edge),
                    PropagatedEdge(nodes, basic_block_start, edge)>> :
                     predecessor \in Range(nodes[basic_block_start].sources),
                     edge \in edges}
        fresh == {pair \in pairs :
                     \/ pair[1] \notin DOMAIN taken
                     \/ pair[2] \notin taken[pair[1]]}
        inserted == InsertAll(taken, pairs)
        reflective == inserted[phi]
    IN [forward |-> [inserted EXCEPT ![phi] = edges \cup reflective],
        continue_propagation |->
            \/ \E pair \in fresh : pair[1][1] = "PhiNode" /\ pair[1] # phi
            \/ reflective \ edges # {}]

RECURSIVE PropagatePass(_, _, _, _, _, _)
\* One iteration of the while loop: the blocks in reverse topological order,
\* from the k-th of the order downwards.
PropagatePass(nodes, outputs, order, k, forward, continue_propagation) ==
    IF k < 1 THEN [forward |-> forward, continue_propagation |-> continue_propagation]
    ELSE IF PhiNode(order[k]) \notin DOMAIN forward
         THEN PropagatePass(nodes, outputs, order, k - 1, forward, continue_propagation)
         ELSE LET done == PropagateBlock(nodes, outputs, forward, order[k])
              IN PropagatePass(nodes, outputs, order, k - 1, done.forward,
                               continue_propagation \/ done.continue_propagation)

\* The removal of the phi nodes of the blocks with exactly one source.
WithoutSinglePhis(nodes, forward) ==
    LET dropped == {PhiNode(b) : b \in {c \in DOMAIN nodes : Len(nodes[c].sources) = 1}}
    IN [key \in DOMAIN forward \ dropped |-> forward[key]]

\* dfg_reverse_edges: every edge of dfg_forward_edges under its destination.
ReverseEdges(forward) ==
    LET all == UNION {forward[key] : key \in DOMAIN forward}
    IN [d \in {e.destination : e \in all} |-> {e \in all : e.destination = d}]

(***************************************************************************)
(* The programs and symbol tables the model analyses.                      *)
(***************************************************************************)
\* The jumps and calls of a program of n slots: every branch target from one
\* before the start to one past the end, every call key.
ControlSlots(n) ==
    {Slot(o, 1, 0, off, 0) : o \in {"JA", "JNE_IMM"}, off \in (0 - n - 1)..(n - 1)}
    \cup {Slot("CALL_IMM", 0, 0, 0, k) : k \in {AbortKey, LogKey} \cup {FnKey(p) : p \in 0..n}}
    \cup {Slot("CALL_REG", 0, 0, 0, 1), Slot("EXIT", 0, 0, 0, 0)}

\* The instructions without a CFG edge, and the second slot of LD_DW_IMM.
PlainSlots == {Slot("MOV64_IMM", 1, 0, 0, 0), Slot("LD_DW_IMM", 1, 0, 0, 0)}
SecondSlot == Slot("0", 0, 0, 0, 0)

\* The wire format: the slot behind an LD_DW_IMM is its second half, and
\* every branch stays within one slot of the program.
WellFormed(program, n) ==
    \A i \in 1..n :
        /\ (program[i] = SecondSlot) <=> (i > 1 /\ program[i - 1].opc = "LD_DW_IMM")
        /\ program[i].opc \in {"JA", "JNE_IMM"} =>
              (i - 1) + program[i].off + 1 \in (0 - 1)..n

\* The programs of exactly n slots over the given slots.
Programs(n, slots) ==
    {program \in [1..n -> slots \cup {SecondSlot}] : WellFormed(program, n)}

\* The symbol tables of a program of n slots. The executable registers its
\* entrypoint as a function, and the entrypoint is an instruction. With
\* orphans the other entries may be any slot, or one past the end, and the
\* entrypoint is the first function that is an instruction (the split does
\* not read it).
SymbolTables(program, n, orphans) ==
    LET real == {insn.ptr : insn \in Range(Decode(program))}
    IN IF orphans
       THEN {[entry |-> CHOOSE e \in F \cap real : \A f \in F \cap real : e <= f,
              fns |-> F] : F \in {G \in SUBSET (0..n) : G \cap real # {}}}
       ELSE {[entry |-> e, fns |-> {e} \cup F] : e \in real, F \in SUBSET real}

\* The fuzz target is not running.
FuzzIdle ==
    /\ interp_res = [ok |-> TRUE, value |-> 0]
    /\ jit_res = [ok |-> TRUE, value |-> 0]
    /\ interp_meter = 0
    /\ jit_meter = 0
    /\ interp_mem = << >>
    /\ jit_mem = << >>
    /\ fuzz_pc = "idle"

\* The Analysis from_executable constructs from one program and symbol
\* table, before it runs the first pass.
InitProgram(program, table) ==
    /\ executable = [text |-> program, bpf_functions |-> table.fns,
                     entrypoint |-> table.entry]
    /\ syscalls = (AbortKey :> "abort" @@ LogKey :> "log")
    /\ instructions = Decode(program)
    /\ functions = table.fns
    /\ cfg_nodes = << >>
    /\ topological_order = << >>
    /\ entrypoint = table.entry
    /\ dfg_forward_edges = << >>
    /\ dfg_reverse_edges = << >>
    /\ basic_block_outputs = << >>
    /\ flatten_call_graph = FALSE
    /\ dom_run = 0
    /\ dom_changed = FALSE
    /\ dom_first = << >>
    /\ inter_passes = 0
    /\ pc = "split"
    /\ FuzzIdle

\* The same for every program of n slots and every symbol table of it.
InitWith(n, slots, orphans) ==
    \E program \in Programs(n, slots) :
        \E table \in SymbolTables(program, n, orphans) :
            InitProgram(program, table)

\* Programs of one slot more than MaxInsns over three opcodes, whose only
\* functions start behind the first instruction: the first node starts at
\* pc 1 and the instruction at pc 0 precedes it.
LateEntryPrograms ==
    [1..(MaxInsns + 1) ->
        {Slot("CALL_REG", 0, 0, 0, 1), Slot("EXIT", 0, 0, 0, 0),
         Slot("MOV64_IMM", 1, 0, 0, 0)}]

LateEntryTables == {[entry |-> 1, fns |-> {1}], [entry |-> 1, fns |-> {1, MaxInsns}]}

InitLateEntry ==
    \E program \in LateEntryPrograms :
        \E table \in LateEntryTables : InitProgram(program, table)

\* Programs of one slot more than MaxInsns that start with a wide-immediate
\* pair: pc 1 is the second slot of the pair and not a decoded instruction.
WideImmediatePrograms ==
    LET n == MaxInsns + 1
        pair == <<Slot("LD_DW_IMM", 1, 0, 0, 0), SecondSlot>>
        slots == PlainSlots \cup ControlSlots(n) \cup {SecondSlot}
    IN {program \in {pair \o rest : rest \in [1..(n - 2) -> slots]} :
            WellFormed(program, n)}

InitWideImmediate ==
    \E program \in WideImmediatePrograms :
        \E table \in SymbolTables(program, MaxInsns + 1, TRUE) :
            InitProgram(program, table)

(***************************************************************************)
(* Actions                                                                 *)
(***************************************************************************)
\* split_into_basic_blocks(flatten); then the pass `next` runs. A panic
\* leaves no Analysis behind.
SplitIntoBasicBlocks(flatten, next) ==
    /\ pc = "split"
    /\ LET r == split_into_basic_blocks(flatten)
       IN /\ cfg_nodes' = r.nodes
          /\ functions' = FilteredFunctions
          /\ pc' = IF r.panic THEN "panic" ELSE next
    /\ flatten_call_graph' = flatten
    /\ UNCHANGED <<fuzz_vars, inter_passes, executable, syscalls, instructions, topological_order,
                   entrypoint, dfg_forward_edges, dfg_reverse_edges,
                   basic_block_outputs, dom_run, dom_changed, dom_first>>

\* A caller runs split_into_basic_blocks on its own, with either argument.
SplitOnly == \E flatten \in BOOLEAN : SplitIntoBasicBlocks(flatten, "split_done")

\* control_flow_graph_tarjan
ControlFlowGraphTarjan ==
    /\ pc = "tarjan"
    /\ LET keys == SortedSeq(DOMAIN cfg_nodes)
           nodes == WithSccIds(keys, TarjanDfs(keys, TarjanStart(keys)))
       IN /\ cfg_nodes' = nodes
          /\ topological_order' = SortedByOrder(nodes, keys)
    /\ pc' = "dom"
    /\ UNCHANGED <<fuzz_vars, inter_passes, executable, syscalls, instructions, functions, entrypoint,
                   dfg_forward_edges, dfg_reverse_edges, basic_block_outputs,
                   flatten_call_graph, dom_run, dom_changed, dom_first>>

\* control_flow_graph_dominance_hierarchy, up to its loop: the entrypoint
\* block becomes its own dominator_parent. The pass runs once in
\* from_executable; a caller may run it again on the finished Analysis.
DominanceStart ==
    /\ pc \in {"dom", "done"}
    /\ cfg_nodes' = [cfg_nodes EXCEPT ![entrypoint].dominator_parent = entrypoint]
    /\ dom_first' = IF pc = "done"
                    THEN [b \in DOMAIN cfg_nodes |-> cfg_nodes[b].dominator_parent]
                    ELSE dom_first
    /\ dom_run' = dom_run + 1
    /\ dom_changed' = FALSE
    /\ pc' = "dom_loop"
    /\ UNCHANGED <<fuzz_vars, inter_passes, executable, syscalls, instructions, functions,
                   topological_order, entrypoint, dfg_forward_edges,
                   dfg_reverse_edges, basic_block_outputs, flatten_call_graph>>

\* One iteration of the loop of control_flow_graph_dominance_hierarchy: a
\* pass over topological_order. The loop ends after a pass without a change.
\* A walk that cannot end hangs the call; an index out of range panics.
DominanceLoop ==
    /\ pc = "dom_loop"
    /\ LET pass == DominancePass(cfg_nodes, topological_order, 1, TRUE)
       IN /\ cfg_nodes' = pass.nodes
          /\ dom_changed' = (dom_changed \/ (pass.end = "ok" /\ ~pass.terminate))
          /\ pc' = IF pass.end = "hang" THEN "dom_hang"
                   ELSE IF pass.end = "panic" THEN "dom_panic"
                   ELSE IF pass.terminate THEN "dom_children"
                   ELSE "dom_loop"
    /\ UNCHANGED <<fuzz_vars, inter_passes, executable, syscalls, instructions, functions,
                   topological_order, entrypoint, dfg_forward_edges,
                   dfg_reverse_edges, basic_block_outputs, flatten_call_graph,
                   dom_run, dom_first>>

\* The end of control_flow_graph_dominance_hierarchy: dominated_children.
DominanceChildren ==
    /\ pc = "dom_children"
    /\ cfg_nodes' = PushChildren(cfg_nodes, topological_order, 1)
    /\ pc' = IF dom_run = 1 THEN "intra" ELSE "rerun_done"
    /\ UNCHANGED <<fuzz_vars, inter_passes, executable, syscalls, instructions, functions,
                   topological_order, entrypoint, dfg_forward_edges,
                   dfg_reverse_edges, basic_block_outputs, flatten_call_graph,
                   dom_run, dom_changed, dom_first>>

\* intra_basic_block_data_flow
IntraBasicBlockDataFlow ==
    /\ pc = "intra"
    /\ LET flow == intra_basic_block_data_flow
       IN /\ dfg_forward_edges' = flow.edges
          /\ basic_block_outputs' = flow.outputs
    /\ pc' = "inter"
    /\ UNCHANGED <<fuzz_vars, inter_passes, executable, syscalls, instructions, functions, cfg_nodes,
                   topological_order, entrypoint, dfg_reverse_edges,
                   flatten_call_graph, dom_run, dom_changed, dom_first>>

\* One iteration of the while loop of inter_basic_block_data_flow.
InterPropagate ==
    /\ pc = "inter"
    /\ inter_passes' = inter_passes + 1
    /\ LET pass == PropagatePass(cfg_nodes, basic_block_outputs, topological_order,
                                 Len(topological_order), dfg_forward_edges, FALSE)
       IN /\ dfg_forward_edges' = pass.forward
          /\ pc' = IF pass.continue_propagation THEN "inter" ELSE "inter_finish"
    /\ UNCHANGED <<fuzz_vars, executable, syscalls, instructions, functions, cfg_nodes,
                   topological_order, entrypoint, dfg_reverse_edges,
                   basic_block_outputs, flatten_call_graph, dom_run,
                   dom_changed, dom_first>>

\* The end of inter_basic_block_data_flow: the phi nodes of the blocks with
\* one source are removed and dfg_reverse_edges is built; from_executable
\* returns the Analysis.
InterFinish ==
    /\ pc = "inter_finish"
    /\ LET forward == WithoutSinglePhis(cfg_nodes, dfg_forward_edges)
       IN /\ dfg_forward_edges' = forward
          /\ dfg_reverse_edges' = ReverseEdges(forward)
    /\ pc' = "done"
    /\ UNCHANGED <<fuzz_vars, inter_passes, executable, syscalls, instructions, functions, cfg_nodes,
                   topological_order, entrypoint, basic_block_outputs,
                   flatten_call_graph, dom_run, dom_changed, dom_first>>

InitSplit ==
    \/ \E n \in 1..MaxInsns : InitWith(n, PlainSlots \cup ControlSlots(n), TRUE)
    \/ InitLateEntry
    \/ InitWideImmediate
NextSplit == SplitOnly
SpecSplit == InitSplit /\ [][NextSplit]_vars

(***************************************************************************)
(* Properties of split_into_basic_blocks                                   *)
(***************************************************************************)
\* split_into_basic_blocks has returned.
SplitDone == pc \notin {"split", "panic"}

\* The nodes whose instruction range holds the instruction of (0-based) index i.
NodesHolding(i) ==
    {s \in DOMAIN cfg_nodes :
        /\ cfg_nodes[s].instructions.start <= i
        /\ i < cfg_nodes[s].instructions.end}

\* C1: after split_into_basic_blocks every instruction of the decoded
\* instruction vector lies in the instructions range of exactly one CFG node.
C1_CfgCovering ==
    SplitDone =>
        \A i \in 0..(Len(instructions) - 1) : Cardinality(NodesHolding(i)) = 1

\* C1 witness: a split program of several blocks, one of them of several
\* instructions or reached with the call graph flattened.
C1_Witness ==
    /\ pc = "split_done"
    /\ Cardinality(DOMAIN cfg_nodes) >= 2
    /\ Len(instructions) >= 2

\* C2: after split_into_basic_blocks (flatten_call_graph false or true) every
\* element of every destinations and sources list is the start of a node.
C2_EdgesPointAtNodes ==
    SplitDone =>
        \A s \in DOMAIN cfg_nodes :
            /\ Range(cfg_nodes[s].destinations) \subseteq DOMAIN cfg_nodes
            /\ Range(cfg_nodes[s].sources) \subseteq DOMAIN cfg_nodes

\* C2 witness: the call graph was flattened and the block of an EXIT got the
\* return addresses of its function as destinations; a branch target outside
\* the program was dropped.
C2_Witness ==
    /\ pc = "split_done"
    /\ flatten_call_graph
    /\ \E s \in DOMAIN cfg_nodes :
          /\ instructions[cfg_nodes[s].instructions.end].opc = "EXIT"
          /\ cfg_nodes[s].destinations # <<>>
          /\ cfg_nodes[s].sources # <<>>

(***************************************************************************)
(* The analysis pipeline of from_executable.                               *)
(***************************************************************************)
\* The instructions of the pipeline's programs: branches stay inside the
\* program.
PipelineSlots(n) ==
    {Slot(o, 1, 0, off, 0) : o \in {"JA", "JNE_IMM"}, off \in (0 - n)..(n - 2)}
    \cup {Slot("MOV64_IMM", 1, 0, 0, 0), Slot("CALL_REG", 0, 0, 0, 1),
          Slot("EXIT", 0, 0, 0, 0)}

\* A program whose branches all land on one of its slots.
BranchesInside(program) ==
    \A i \in 1..Len(program) :
        program[i].opc \in {"JA", "JNE_IMM"} =>
            (i - 1) + program[i].off + 1 \in 0..(Len(program) - 1)

\* Instructions that read and write registers and memory without ending a
\* block: arithmetic, a register move, a load and a store; and EXIT.
DataSlots ==
    {Slot("ADD64_REG", 1, 2, 0, 0), Slot("NEG64", 1, 0, 0, 0),
     Slot("MOV64_REG", 2, 1, 0, 0), Slot("LD_DW_REG", 1, 2, 0, 0),
     Slot("ST_DW_REG", 2, 1, 0, 0), Slot("EXIT", 0, 0, 0, 0)}

\* The calls: CALL_REG through a scratch register and through r10, CALL_IMM
\* of a syscall and of the function at pc 0; and EXIT.
CallSlots ==
    {Slot("CALL_REG", 0, 0, 0, reg) : reg \in {FIRST_SCRATCH_REG, 10}}
    \cup {Slot("CALL_IMM", 0, 0, 0, key) : key \in {LogKey, FnKey(0)}}
    \cup {Slot("EXIT", 0, 0, 0, 0)}

Init ==
    /\ \E n \in 1..MaxInsns :
          \/ InitWith(n, PipelineSlots(n), FALSE)
          \/ InitWith(n, DataSlots, FALSE)
          \/ InitWith(n, CallSlots, FALSE)
    /\ BranchesInside(executable.text)

\* from_executable's call split_into_basic_blocks(false)
FromExecutableSplit == SplitIntoBasicBlocks(FALSE, "tarjan")

Next ==
    \/ FromExecutableSplit
    \/ ControlFlowGraphTarjan
    \/ DominanceStart
    \/ DominanceLoop
    \/ DominanceChildren
    \/ IntraBasicBlockDataFlow
    \/ InterPropagate
    \/ InterFinish

Spec == Init /\ [][Next]_vars

(***************************************************************************)
(* Properties of control_flow_graph_tarjan                                 *)
(***************************************************************************)
\* control_flow_graph_tarjan has returned.
TarjanDone == pc \notin {"split", "split_done", "panic", "tarjan"}

\* The blocks the end of block a can jump to.
Successors(a) == Range(cfg_nodes[a].destinations)

RECURSIVE ReachableFrom(_)
\* The blocks reachable along destinations edges from a block of S, S included.
ReachableFrom(S) ==
    LET more == S \cup UNION {Successors(a) : a \in S}
    IN IF more = S THEN S ELSE ReachableFrom(more)

\* The position of block b in topological_order.
PositionOf(b) == CHOOSE k \in 1..Len(topological_order) : topological_order[k] = b

\* C9: topological_order is a topological order of the DAG of SCCs: for every
\* CFG edge a -> b between different SCCs, scc_id(a) > scc_id(b) and a stands
\* before b in topological_order.
C9_TopologicalOrder ==
    TarjanDone =>
        \A a \in DOMAIN cfg_nodes : \A b \in Successors(a) :
            cfg_nodes[a].scc_id # cfg_nodes[b].scc_id =>
                /\ cfg_nodes[a].scc_id > cfg_nodes[b].scc_id
                /\ PositionOf(a) < PositionOf(b)

\* C9 witness: an analysed CFG with an edge between two SCCs whose source has
\* the larger key, so that the order is not the order of the keys.
C9_Witness ==
    /\ TarjanDone
    /\ \E a \in DOMAIN cfg_nodes : \E b \in Successors(a) :
          /\ cfg_nodes[a].scc_id # cfg_nodes[b].scc_id
          /\ a > b

\* C10: two blocks have the same scc_id exactly when each is reachable from
\* the other along destinations edges.
C10_SccCorrect ==
    TarjanDone =>
        \A a \in DOMAIN cfg_nodes : \A b \in DOMAIN cfg_nodes :
            (cfg_nodes[a].scc_id = cfg_nodes[b].scc_id)
                <=> (b \in ReachableFrom({a}) /\ a \in ReachableFrom({b}))

\* C10 witness: an SCC of two blocks, one of them with a self-loop or with a
\* duplicate edge to the other.
C10_Witness ==
    /\ TarjanDone
    /\ \E a \in DOMAIN cfg_nodes : \E b \in DOMAIN cfg_nodes :
          /\ a # b
          /\ cfg_nodes[a].scc_id = cfg_nodes[b].scc_id
          /\ \/ a \in Successors(a)
             \/ Count(cfg_nodes[a].destinations, b) = 2

(***************************************************************************)
(* Properties of control_flow_graph_dominance_hierarchy                    *)
(***************************************************************************)
\* control_flow_graph_dominance_hierarchy has returned.
DominanceDone == pc \in {"intra", "inter", "inter_finish", "done", "rerun_done"}

RECURSIVE ReachableAvoiding(_, _)
\* The blocks reachable from a block of S along paths that do not pass d.
ReachableAvoiding(S, d) ==
    LET more == (S \cup UNION {Successors(a) : a \in S}) \ {d}
    IN IF more = S THEN S ELSE ReachableAvoiding(more, d)

\* d dominates b: every path from the entrypoint block to b passes d.
Dominates(d, b) == d = b \/ b \notin ReachableAvoiding({entrypoint} \ {d}, d)

\* The blocks other than b that dominate b.
StrictDominators(b) == {d \in DOMAIN cfg_nodes \ {b} : Dominates(d, b)}

\* The immediate dominator of a block reachable from the entrypoint block:
\* the strict dominator closest to it, the one every other strict dominator
\* dominates. The entrypoint block has none and is its own (line 715).
ImmediateDominator(b) ==
    IF b = entrypoint THEN entrypoint
    ELSE CHOOSE d \in StrictDominators(b) :
            \A e \in StrictDominators(b) : Dominates(e, d)

\* C3: for every block reachable from the entrypoint block, dominator_parent
\* is the block's immediate dominator.
C3_DominatorCorrect ==
    DominanceDone =>
        \A b \in ReachableFrom({entrypoint}) :
            cfg_nodes[b].dominator_parent = ImmediateDominator(b)

\* C4: after control_flow_graph_dominance_hierarchy the entrypoint block is
\* its own dominator_parent, with or without a branch back to it.
C4_EntryDominatesItself ==
    DominanceDone => cfg_nodes[entrypoint].dominator_parent = entrypoint

\* C5: a second run of the dominator pass on the analysed program records no
\* change in any pass and leaves every dominator_parent as the first run did.
C5_DominatorFixedPoint ==
    pc = "rerun_done" =>
        /\ ~dom_changed
        /\ \A b \in DOMAIN cfg_nodes : cfg_nodes[b].dominator_parent = dom_first[b]

(***************************************************************************)
(* The data-flow graph of the finished analysis                            *)
(***************************************************************************)
Analysed == pc = "done"

\* Every edge stored in dfg_forward_edges.
StoredEdges == UNION {dfg_forward_edges[key] : key \in DOMAIN dfg_forward_edges}

\* The resources an instruction reads, and those it writes.
ReadsOf(insn) == {Binds(insn)[k][2] : k \in {j \in 1..Len(Binds(insn)) : ~Binds(insn)[j][1]}}
WritesOf(insn) == {Binds(insn)[k][2] : k \in {j \in 1..Len(Binds(insn)) : Binds(insn)[j][1]}}

\* The instructions of block b, as indices into instructions.
InsnsOf(b) == (cfg_nodes[b].instructions.start + 1)..cfg_nodes[b].instructions.end

\* Resource R has no writer in block b before the instruction of index i.
NotYetWritten(b, i, R) ==
    \A j \in InsnsOf(b) : j < i => R \notin WritesOf(instructions[j])

\* C6: in the finished analysis every read of a resource by an instruction has
\* a Filled edge on that resource among the reverse edges of the instruction.
C6_DfgComplete ==
    Analysed =>
        \A i \in 1..Len(instructions) :
            \A R \in ReadsOf(instructions[i]) :
                /\ InstructionNode(instructions[i].ptr) \in DOMAIN dfg_reverse_edges
                /\ \E e \in dfg_reverse_edges[InstructionNode(instructions[i].ptr)] :
                      /\ e.kind = "Filled"
                      /\ e.resource = R

\* The blocks a phi node of the finished data-flow graph refers to: keys of
\* either map and the source and destination of every stored edge.
PhiBlocks ==
    {n[2] : n \in {m \in DOMAIN dfg_forward_edges \cup DOMAIN dfg_reverse_edges
                         \cup {e.source : e \in StoredEdges}
                         \cup {e.destination : e \in StoredEdges} :
                      m[1] = "PhiNode"}}

\* C7: in the finished analysis every phi node of the data-flow graph belongs
\* to a block with at least two predecessors.
C7_PhiOnlyAtMerges ==
    Analysed => \A b \in PhiBlocks : Len(cfg_nodes[b].sources) >= 2

\* The resources the instruction of index i of block b takes from outside
\* the block and the single predecessor of b has a writer for.
TakenFromPredecessor(b, i) ==
    {R \in ReadsOf(instructions[i]) \cup WritesOf(instructions[i]) :
        /\ NotYetWritten(b, i, R)
        /\ R \in DOMAIN basic_block_outputs[cfg_nodes[b].sources[1]]}

InitialBudget == 65536

\* The inputs and the outcomes of a run the model draws from: the bytes of
\* data.mem, the u64 a run returns, the errors it fails with, and what it
\* leaves in the meter.
MemoryBytes == {<<0>>, <<1>>}
ReturnValues == {0, 1}
ErrorKinds == {"ExceededMaxInstructions", "AccessViolation"}
Remainings == {0, InitialBudget - 1}

\* The Result<u64, EbpfError> values of a run.
ProgramResults ==
    [ok : {TRUE}, value : ReturnValues] \cup [ok : {FALSE}, value : ErrorKinds]

\* format!("{:?}", res) of a ProgramResult.
Format(res) == IF res.ok THEN <<"Ok(", res.value, ")">> ELSE <<"Err(", res.value, ")">>

\* The state of the fuzz target on entry, with data.mem = mem.
InitFuzzWith(mem) ==
    /\ interp_res = [ok |-> TRUE, value |-> 0]
    /\ jit_res = [ok |-> TRUE, value |-> 0]
    /\ interp_meter = 0
    /\ jit_meter = 0
    /\ interp_mem = mem
    /\ jit_mem = mem
    /\ fuzz_pc = "verify"

\* RequisiteVerifier::verify: a rejected program makes the target return.
FuzzVerify ==
    /\ fuzz_pc = "verify"
    /\ \E accepted \in BOOLEAN :
          fuzz_pc' = IF accepted THEN "jit_compile" ELSE "rejected"
    /\ UNCHANGED <<analysis_vars, interp_res, jit_res, interp_meter, jit_meter,
                   interp_mem, jit_mem>>

\* verified_executable.jit_compile(): nothing is run unless it is Ok.
FuzzJitCompile ==
    /\ fuzz_pc = "jit_compile"
    /\ \E compiled \in BOOLEAN :
          fuzz_pc' = IF compiled THEN "interpret" ELSE "not_compiled"
    /\ UNCHANGED <<analysis_vars, interp_res, jit_res, interp_meter, jit_meter,
                   interp_mem, jit_mem>>

\* interp_vm.execute_program_interpreted(&mut interp_meter), with any outcome.
FuzzExecuteInterpreted ==
    /\ fuzz_pc = "interpret"
    /\ interp_res' \in ProgramResults
    /\ interp_meter' \in Remainings
    /\ interp_mem' \in MemoryBytes
    /\ fuzz_pc' = "jit"
    /\ UNCHANGED <<analysis_vars, jit_res, jit_meter, jit_mem>>

\* jit_vm.execute_program_jit(&mut jit_meter), with any outcome.
FuzzExecuteJit ==
    /\ fuzz_pc = "jit"
    /\ jit_res' \in ProgramResults
    /\ jit_meter' \in Remainings
    /\ jit_mem' \in MemoryBytes
    /\ fuzz_pc' = "compare"
    /\ UNCHANGED <<analysis_vars, interp_res, interp_meter, interp_mem>>

\* The comparisons of the target: whether it panics.
Mismatch ==
    \/ Format(interp_res) # Format(jit_res)
    \/ /\ interp_res.ok
       /\ \/ interp_meter # jit_meter
          \/ interp_mem # jit_mem

FuzzCompare ==
    /\ fuzz_pc = "compare"
    /\ fuzz_pc' = IF Mismatch THEN "panic" ELSE "returned"
    /\ UNCHANGED <<analysis_vars, interp_res, jit_res, interp_meter, jit_meter,
                   interp_mem, jit_mem>>

\* The Analysis plays no part in the fuzz target.
NoAnalysis ==
    /\ executable = [text |-> << >>, bpf_functions |-> {}, entrypoint |-> 0]
    /\ syscalls = << >>
    /\ instructions = << >>
    /\ functions = {}
    /\ cfg_nodes = << >>
    /\ topological_order = << >>
    /\ entrypoint = 0
    /\ dfg_forward_edges = << >>
    /\ dfg_reverse_edges = << >>
    /\ basic_block_outputs = << >>
    /\ flatten_call_graph = FALSE
    /\ dom_run = 0
    /\ dom_changed = FALSE
    /\ dom_first = << >>
    /\ inter_passes = 0
    /\ pc = "none"

InitFuzz == NoAnalysis /\ \E mem \in MemoryBytes : InitFuzzWith(mem)

NextFuzz ==
    \/ FuzzVerify
    \/ FuzzJitCompile
    \/ FuzzExecuteInterpreted
    \/ FuzzExecuteJit
    \/ FuzzCompare

SpecFuzz == InitFuzz /\ [][NextFuzz]_vars

\* C12: whenever the runs of the interpreter and of the JIT differ in the
\* result (return value or error), in the remaining meter count or in the
\* final memory, whether the runs succeed or fail, the fuzz target panics: it
\* never returns from the comparison with a difference left.
C12_FuzzReportsEveryDifference ==
    fuzz_pc = "returned" =>
        /\ interp_res = jit_res
        /\ interp_meter = jit_meter
        /\ interp_mem = jit_mem

(***************************************************************************)
(* Further properties of the finished data-flow graph                      *)
(***************************************************************************)
\* C13: in the finished analysis every edge stored in dfg_forward_edges under
\* a key has that key as its source, and every edge stored in
\* dfg_reverse_edges under a key has that key as its destination.
C13_EdgeFieldsMatchKeys ==
    Analysed =>
        /\ \A k \in DOMAIN dfg_forward_edges :
              \A e \in dfg_forward_edges[k] : e.source = k
        /\ \A k \in DOMAIN dfg_reverse_edges :
              \A e \in dfg_reverse_edges[k] : e.destination = k

(***************************************************************************)
(* Termination of the passes                                               *)
(***************************************************************************)
\* C14: control_flow_graph_dominance_hierarchy terminates on every CFG that
\* split_into_basic_blocks produces: no pass enters an intersection walk
\* that cannot end.
C14_DominanceTerminates == pc # "dom_hang"

RECURSIVE EdgeCount(_, _)
\* The number of stored edges, each counted under the key it is stored under.
EdgeCount(forward, keys) ==
    IF keys = {} THEN 0
    ELSE LET k == CHOOSE x \in keys : TRUE
         IN Cardinality(forward[k]) + EdgeCount(forward, keys \ {k})

\* The edges stored now beyond those intra_basic_block_data_flow stored.
EdgesAdded ==
    EdgeCount(dfg_forward_edges, DOMAIN dfg_forward_edges)
       - EdgeCount(intra_basic_block_data_flow.edges,
                   DOMAIN intra_basic_block_data_flow.edges)

\* C15: inter_basic_block_data_flow terminates on every CFG: the edges stored
\* under a key only grow from pass to pass, and every pass but the last adds
\* an edge, so that the loop has stopped after the first pass that adds none
\* and never runs more passes than one more than the edges it has added.
C15_InterTerminates ==
    /\ [][pc = "inter" =>
            \A k \in DOMAIN dfg_forward_edges :
                /\ k \in DOMAIN dfg_forward_edges'
                /\ dfg_forward_edges[k] \subseteq dfg_forward_edges'[k]]_vars
    /\ [](pc = "inter" => inter_passes <= EdgesAdded)
    /\ [](pc = "inter_finish" => inter_passes <= EdgesAdded + 1)

\* The propagation has ended after more than one pass on a CFG with a block
\* that is its own predecessor and has another one, and edges were
\* propagated into the phi node of that block.
C15_Witness ==
    /\ pc = "inter_finish"
    /\ inter_passes >= 2
    /\ \E b \in DOMAIN cfg_nodes :
          /\ b \in Successors(b)
          /\ Len(cfg_nodes[b].sources) > 1
          /\ \E k \in DOMAIN dfg_forward_edges :
                \E e \in dfg_forward_edges[k] : e.destination = PhiNode(b)

(***************************************************************************)
(* Further properties of split_into_basic_blocks                           *)
(***************************************************************************)
\* Whether the instruction is a jump, conditional or not.
IsBranch(insn) == insn.opc = "JA" \/ insn.opc \in CondJump

\* Whether a CALL_IMM names a syscall (a helper).
IsHelperCall(insn) == insn.opc = "CALL_IMM" /\ insn.imm \in DOMAIN syscalls

\* Whether the instruction is a call to a helper or to a function of the
\* executable, or a CALL_REG.
IsCall(insn) ==
    \/ insn.opc = "CALL_REG"
    \/ IsHelperCall(insn)
    \/ insn.opc = "CALL_IMM" /\ IsInternalCall(insn)

\* C16: after split_into_basic_blocks a node starts at every function entry,
\* at every branch target, and at every instruction that follows a branch, a
\* call (to a helper, to an internal function, or CALL_REG) or an exit,
\* wherever that pc is an instruction of the program.
C16_BlockStarts ==
    SplitDone =>
        /\ executable.bpf_functions \cap InsnPtrs \subseteq DOMAIN cfg_nodes
        /\ \A i \in 1..Len(instructions) :
              LET insn == instructions[i]
              IN /\ (IsBranch(insn) /\ insn.ptr + insn.off + 1 \in InsnPtrs)
                       => insn.ptr + insn.off + 1 \in DOMAIN cfg_nodes
                 /\ ((IsBranch(insn) \/ IsCall(insn) \/ insn.opc = "EXIT")
                        /\ i < Len(instructions))
                       => instructions[i + 1].ptr \in DOMAIN cfg_nodes

\* Whether the instruction is a call that ends a block: a call of the helper
\* named abort, a call of an internal function, or a CALL_REG.
IsBlockEndingCall(insn) ==
    \/ insn.opc = "CALL_REG"
    \/ insn.opc = "CALL_IMM" /\ (IsAbortCall(insn) \/ IsInternalCall(insn))

\* C16 as amended: as C16, with the calls to helpers narrowed to the calls of
\* the helper named abort.
C16_BlockStartsAmended ==
    SplitDone =>
        /\ executable.bpf_functions \cap InsnPtrs \subseteq DOMAIN cfg_nodes
        /\ \A i \in 1..Len(instructions) :
              LET insn == instructions[i]
              IN /\ (IsBranch(insn) /\ insn.ptr + insn.off + 1 \in InsnPtrs)
                       => insn.ptr + insn.off + 1 \in DOMAIN cfg_nodes
                 /\ ((IsBranch(insn) \/ IsBlockEndingCall(insn) \/ insn.opc = "EXIT")
                        /\ i < Len(instructions))
                       => instructions[i + 1].ptr \in DOMAIN cfg_nodes

\* A call of abort is followed by an instruction that starts a node only
\* because of the call: it is no function entry and no branch target.
C16_Witness ==
    /\ pc = "split_done"
    /\ \E i \in 1..(Len(instructions) - 1) :
          /\ instructions[i].opc = "CALL_IMM"
          /\ IsAbortCall(instructions[i])
          /\ instructions[i + 1].ptr \in DOMAIN cfg_nodes
          /\ instructions[i + 1].ptr \notin executable.bpf_functions
          /\ \A j \in 1..Len(instructions) :
                IsBranch(instructions[j]) =>
                    instructions[j].ptr + instructions[j].off + 1 # instructions[i + 1].ptr

\* The last instruction of the block that starts at s.
LastInsn(s) == instructions[cfg_nodes[s].instructions.end]

\* Whether the instruction is a terminator: a jump, an exit, a call of the
\* helper abort or of an internal function, or a CALL_REG.
IsTerminator(insn) ==
    IsBranch(insn) \/ insn.opc = "EXIT" \/ IsBlockEndingCall(insn)

\* The successors a terminator yields, before the filter.
SuccessorsOfTerminator(insn, flatten) ==
    IF insn.opc = "JA" THEN <<insn.ptr + insn.off + 1>>
    ELSE IF insn.opc \in CondJump THEN <<insn.ptr + 1, insn.ptr + insn.off + 1>>
    ELSE IF insn.opc = "EXIT" THEN <<>>
    ELSE IF insn.opc = "CALL_REG" THEN <<insn.ptr + 1>>
    ELSE IF IsAbortCall(insn) THEN <<>>
    ELSE IF flatten THEN <<insn.ptr + 1, lookup_bpf_function(insn.imm)>>
    ELSE <<insn.ptr + 1>>

\* C17: after split_into_basic_blocks the destinations of a block that ends
\* in a terminator are the successors of that terminator that are block
\* starts: [target] for JA, [pc+1, target] for a conditional jump, none for
\* EXIT and for a call of abort, [pc+1] for a call of an internal function
\* ([pc+1, callee] with flatten_call_graph) and [pc+1] for CALL_REG.
C17_TerminatorSuccessors ==
    SplitDone =>
        \A s \in DOMAIN cfg_nodes :
            IsTerminator(LastInsn(s)) =>
                cfg_nodes[s].destinations =
                    Retain(SuccessorsOfTerminator(LastInsn(s), flatten_call_graph),
                           DOMAIN cfg_nodes)

\* The block that follows block s in pc order, None behind the last block.
NextBlock(s) ==
    IF \E t \in DOMAIN cfg_nodes : t > s
    THEN CHOOSE t \in DOMAIN cfg_nodes :
            t > s /\ \A u \in DOMAIN cfg_nodes : u > s => t <= u
    ELSE None

\* Whether no instruction of block s is a terminator.
HasNoTerminator(s) == \A i \in InsnsOf(s) : ~IsTerminator(instructions[i])

\* C18: a block without a jump, exit, abort call, internal call or CALL_REG
\* has exactly one successor, the next block in pc order, unless its start
\* is a function entry or it is the last block: then it has none.
C18_Fallthrough ==
    SplitDone =>
        \A s \in DOMAIN cfg_nodes :
            HasNoTerminator(s) =>
                cfg_nodes[s].destinations =
                    IF s \in functions \/ NextBlock(s) = None
                    THEN <<>> ELSE <<NextBlock(s)>>


\* The pcs that the branches and the calls of internal functions aim at.
BranchAndCallTargets ==
    {target_pc(instructions[i]) :
        i \in {j \in 1..Len(instructions) : IsBranch(instructions[j])}}
    \cup {lookup_bpf_function(instructions[i].imm) :
            i \in {j \in 1..Len(instructions) :
                      /\ instructions[j].opc = "CALL_IMM"
                      /\ IsInternalCall(instructions[j])}}

\* The targets that are not the pc of a decoded instruction.
InvalidTargets == BranchAndCallTargets \ InsnPtrs

\* C19: after split_into_basic_blocks no node starts at a branch or call
\* target that is not the pc of a decoded instruction and no destinations
\* list holds such a target, so that the link step finds the node of every
\* destination it unwraps; a function entry that is not the pc of a decoded
\* instruction is neither in functions nor in cfg_nodes.
C19_InvalidTargetsFiltered ==
    SplitDone =>
        /\ \A t \in InvalidTargets :
              /\ t \notin DOMAIN cfg_nodes
              /\ \A s \in DOMAIN cfg_nodes : t \notin Range(cfg_nodes[s].destinations)
        /\ ~LinkPanics(cfg_nodes, AllCfgEdges(cfg_nodes, SortedSeq(DOMAIN cfg_nodes)))
        /\ \A f \in executable.bpf_functions \ InsnPtrs :
              f \notin functions /\ f \notin DOMAIN cfg_nodes

\* C19 witness: the split has finished on a program that has a branch whose
\* target is the second slot of a wide-immediate pair, and a function entry
\* that is not the pc of a decoded instruction.
C19_Witness ==
    /\ pc = "split_done"
    /\ \E i \in 1..Len(instructions) :
          /\ IsBranch(instructions[i])
          /\ target_pc(instructions[i]) = 1
    /\ executable.text[1].opc = "LD_DW_IMM"
    /\ executable.bpf_functions \ InsnPtrs # {}
    /\ functions # {}

\* A further case of the filter: a branch that aims past the end of the program and a
\* branch that aims before its start.
OutsideTargetsReached ==
    /\ pc = "split_done"
    /\ \E i \in 1..Len(instructions) :
          /\ IsBranch(instructions[i])
          /\ target_pc(instructions[i]) = Len(executable.text)
    /\ \E i \in 1..Len(instructions) :
          /\ IsBranch(instructions[i])
          /\ instructions[i].ptr + instructions[i].off + 1 < 0


(***************************************************************************)
(* Properties of intra_basic_block_data_flow                               *)
(***************************************************************************)
\* intra_basic_block_data_flow has returned and inter_basic_block_data_flow
\* has not yet touched the edges.
IntraDone == pc = "inter" /\ inter_passes = 0

\* The node a read of R by the instruction of index i of block b depends on:
\* the latest earlier instruction of the block that writes R, else the phi
\* node of the block.
LatestWriter(b, i, R) ==
    LET earlier == {j \in InsnsOf(b) : j < i /\ R \in WritesOf(instructions[j])}
    IN IF earlier = {} THEN PhiNode(b)
       ELSE InstructionNode(
                instructions[CHOOSE j \in earlier : \A k \in earlier : k <= j].ptr)

\* C20: after intra_basic_block_data_flow, for every read of a resource R by
\* an instruction I of a block, the Filled edges on R to InstructionNode(I)
\* are exactly one edge, stored under its source, whose source is the latest
\* earlier instruction of the block that writes R, or the phi node of the
\* block when there is none; the source is never I itself.
C20_IntraReadEdges ==
    IntraDone =>
        \A b \in DOMAIN cfg_nodes : \A i \in InsnsOf(b) :
            \A R \in ReadsOf(instructions[i]) :
                LET I == InstructionNode(instructions[i].ptr)
                    source == LatestWriter(b, i, R)
                    edge == DfgEdge(source, I, "Filled", R)
                IN /\ source # I
                   /\ source \in DOMAIN dfg_forward_edges
                   /\ edge \in dfg_forward_edges[source]
                   /\ {e \in StoredEdges :
                          e.destination = I /\ e.resource = R /\ e.kind = "Filled"}
                         = {edge}

\* C20 witness: an instruction that reads and writes a register follows, in
\* its block, an instruction that writes the register, and reads another
\* register that no earlier instruction of the block writes.
C20_Witness ==
    /\ IntraDone
    /\ \E b \in DOMAIN cfg_nodes : \E i \in InsnsOf(b) :
          /\ \E R \in ReadsOf(instructions[i]) \cap WritesOf(instructions[i]) :
                /\ LatestWriter(b, i, R) # PhiNode(b)
                /\ LatestWriter(b, i, R) \in DOMAIN dfg_forward_edges
          /\ \E R \in ReadsOf(instructions[i]) : LatestWriter(b, i, R) = PhiNode(b)


\* The resources the instructions of block b write.
WrittenIn(b) == UNION {WritesOf(instructions[i]) : i \in InsnsOf(b)}

\* The last instruction of block b that writes R, as an index.
LastWriterIn(b, R) ==
    CHOOSE i \in InsnsOf(b) :
        /\ R \in WritesOf(instructions[i])
        /\ \A j \in InsnsOf(b) : R \in WritesOf(instructions[j]) => j <= i

\* C21: after intra_basic_block_data_flow, for every write of a resource R by
\* an instruction I of a block, the Empty edges on R to InstructionNode(I) are
\* exactly one edge, from the previous writer of R in the block or from the
\* phi node of the block; and the outputs returned for a block hold R exactly
\* when an instruction of the block writes R, mapped to the last of them.
C21_IntraWriteEdgesAndOutputs ==
    IntraDone =>
        /\ DOMAIN basic_block_outputs = DOMAIN cfg_nodes
        /\ \A b \in DOMAIN cfg_nodes :
              /\ \A i \in InsnsOf(b) : \A R \in WritesOf(instructions[i]) :
                    LET I == InstructionNode(instructions[i].ptr)
                        source == LatestWriter(b, i, R)
                        edge == DfgEdge(source, I, "Empty", R)
                    IN /\ source \in DOMAIN dfg_forward_edges
                       /\ edge \in dfg_forward_edges[source]
                       /\ {e \in StoredEdges :
                              e.destination = I /\ e.resource = R /\ e.kind = "Empty"}
                             = {edge}
              /\ DOMAIN basic_block_outputs[b] = WrittenIn(b)
              /\ \A R \in WrittenIn(b) :
                    basic_block_outputs[b][R] = instructions[LastWriterIn(b, R)].ptr

\* C21 witness: a block in which two instructions write the same resource,
\* the second with its Empty edge from the first, and whose outputs name
\* the second.
C21_Witness ==
    /\ IntraDone
    /\ \E b \in DOMAIN cfg_nodes : \E i \in InsnsOf(b) :
          \E R \in WritesOf(instructions[i]) :
              /\ LatestWriter(b, i, R) # PhiNode(b)
              /\ basic_block_outputs[b][R] = instructions[i].ptr

\* A block that writes nothing follows a block that writes a register: its
\* outputs are empty.
EmptyOutputsReached ==
    /\ IntraDone
    /\ \E a, b \in DOMAIN cfg_nodes :
          /\ a < b
          /\ WrittenIn(a) # {}
          /\ DOMAIN basic_block_outputs[b] = {}


\* The resources of the Filled edges, and of the Empty edges, that end at the
\* instruction of index i: what the instruction was bound to read and write.
ReadResources(i) ==
    {e.resource : e \in {x \in StoredEdges :
        x.destination = InstructionNode(instructions[i].ptr) /\ x.kind = "Filled"}}
WrittenResources(i) ==
    {e.resource : e \in {x \in StoredEdges :
        x.destination = InstructionNode(instructions[i].ptr) /\ x.kind = "Empty"}}

\* Memory, the non-scratch registers r0..r5 and r10.
CallResources == {Memory} \cup {Register(reg) : reg \in (0..5) \cup {10}}

\* C22: after intra_basic_block_data_flow a CALL_IMM or CALL_REG has read and
\* written exactly Memory, r0..r5 and r10, a CALL_REG whose imm is outside
\* 6..9 has also read the register imm selects, and an EXIT has read exactly
\* Memory, r0..r5 and r10 and written nothing.
C22_CallAndExitResources ==
    IntraDone =>
        \A i \in 1..Len(instructions) :
            LET insn == instructions[i]
            IN /\ insn.opc \in {"CALL_IMM", "CALL_REG"} =>
                    /\ WrittenResources(i) = CallResources
                    /\ ReadResources(i) =
                          CallResources \cup
                              (IF insn.opc = "CALL_REG" /\ insn.imm \notin 6..9
                               THEN {Register(insn.imm)} ELSE {})
               /\ insn.opc = "EXIT" =>
                    /\ ReadResources(i) = CallResources
                    /\ WrittenResources(i) = {}

\* C22 witness: a program with a CALL_REG through the scratch register r6,
\* which it has not read, and a CALL_IMM, both bound.
C22_Witness ==
    /\ IntraDone
    /\ \E i, j \in 1..Len(instructions) :
          /\ instructions[i].opc = "CALL_REG"
          /\ instructions[i].imm = 6
          /\ Register(6) \notin ReadResources(i)
          /\ Register(10) \in ReadResources(i)
          /\ instructions[j].opc = "CALL_IMM"
          /\ Memory \in WrittenResources(j)


(***************************************************************************)
(* Further properties of control_flow_graph_tarjan                         *)
(***************************************************************************)
\* C23: after control_flow_graph_tarjan no block has a larger scc_id than the
\* block of the entrypoint.
C23_EntrySccLargest ==
    TarjanDone =>
        \A b \in DOMAIN cfg_nodes :
            cfg_nodes[b].scc_id <= cfg_nodes[entrypoint].scc_id


\* C23 as amended: among the blocks reachable from the block of the
\* entrypoint none has a larger scc_id than it, and only the blocks of its
\* own SCC have the same.
C23_EntrySccLargestReachable ==
    TarjanDone =>
        \A b \in ReachableFrom({entrypoint}) :
            /\ cfg_nodes[b].scc_id <= cfg_nodes[entrypoint].scc_id
            /\ cfg_nodes[b].scc_id = cfg_nodes[entrypoint].scc_id
                  => entrypoint \in ReachableFrom({b})

\* C23 witness: the entrypoint is not the first block, so the search did not
\* start at it, and it reaches a block of another SCC, whose scc_id is smaller.
C23_Witness ==
    /\ TarjanDone
    /\ \E b \in DOMAIN cfg_nodes : b < entrypoint
    /\ \E b \in ReachableFrom({entrypoint}) :
          /\ entrypoint \notin ReachableFrom({b})
          /\ cfg_nodes[b].scc_id < cfg_nodes[entrypoint].scc_id


RECURSIVE DiscoveryOrder(_, _)
\* The order in which the search discovers the blocks: todo holds the blocks
\* still to be looked at, the roots in key order behind the destinations of
\* the blocks under way; a block is discovered when it is first looked at.
DiscoveryOrder(todo, order) ==
    IF todo = <<>> THEN order
    ELSE IF Head(todo) \in Range(order) THEN DiscoveryOrder(Tail(todo), order)
    ELSE DiscoveryOrder(cfg_nodes[Head(todo)].destinations \o Tail(todo),
                        Append(order, Head(todo)))

\* The position of block b in the discovery order.
DiscoveryRank(b) ==
    LET order == DiscoveryOrder(SortedSeq(DOMAIN cfg_nodes), <<>>)
    IN CHOOSE k \in 1..Len(order) : order[k] = b

\* The blocks with the scc_id of block b.
SccOf(b) == {c \in DOMAIN cfg_nodes : cfg_nodes[c].scc_id = cfg_nodes[b].scc_id}

\* C24: after control_flow_graph_tarjan, of two blocks of one SCC the one
\* discovered earlier has the smaller index_in_scc, and the index_in_scc
\* values of an SCC of n blocks are exactly 0..n-1.
C24_IndexIsDiscoveryOrder ==
    TarjanDone =>
        \A b \in DOMAIN cfg_nodes :
            /\ \A c \in SccOf(b) :
                  DiscoveryRank(b) < DiscoveryRank(c)
                      => cfg_nodes[b].index_in_scc < cfg_nodes[c].index_in_scc
            /\ {cfg_nodes[c].index_in_scc : c \in SccOf(b)}
                  = 0..(Cardinality(SccOf(b)) - 1)


(***************************************************************************)
(* Further properties of control_flow_graph_dominance_hierarchy            *)
(***************************************************************************)
\* control_flow_graph_dominance_hierarchy has returned from its only run.
DominanceDoneOnce == DominanceDone /\ dom_run = 1

\* C25: after one run of control_flow_graph_dominance_hierarchy block c
\* occurs in the dominated_children of block p exactly once when p is the
\* dominator_parent of c and c is not p, and not at all otherwise; the lists
\* hold nothing but blocks.
C25_ChildrenInverseOfParent ==
    DominanceDoneOnce =>
        \A p \in DOMAIN cfg_nodes :
            /\ Range(cfg_nodes[p].dominated_children) \subseteq DOMAIN cfg_nodes
            /\ \A c \in DOMAIN cfg_nodes :
                  Count(cfg_nodes[p].dominated_children, c) =
                      IF cfg_nodes[c].dominator_parent = p /\ c # p THEN 1 ELSE 0

\* C25 witness: a block that is its own dominator_parent and the
\* dominator_parent of another block, which is its only dominated child.
C25_Witness ==
    /\ DominanceDoneOnce
    /\ \E p \in DOMAIN cfg_nodes :
          /\ cfg_nodes[p].dominator_parent = p
          /\ \E c \in DOMAIN cfg_nodes \ {p} :
                /\ cfg_nodes[c].dominator_parent = p
                /\ cfg_nodes[p].dominated_children = <<c>>


RECURSIVE ParentAfter(_, _)
\* The block reached from b by following dominator_parent for k steps.
ParentAfter(b, k) ==
    IF k = 0 THEN b ELSE ParentAfter(cfg_nodes[b].dominator_parent, k - 1)

\* C26: after control_flow_graph_dominance_hierarchy, following
\* dominator_parent from any block stays inside cfg_nodes and reaches, within
\* as many steps as there are blocks, a block that is its own
\* dominator_parent: no two or more blocks form a cycle of dominator_parent.
C26_DominatorForest ==
    DominanceDone =>
        \A b \in DOMAIN cfg_nodes :
            /\ cfg_nodes[b].dominator_parent \in DOMAIN cfg_nodes
            /\ \E k \in 0..Cardinality(DOMAIN cfg_nodes) :
                  LET root == ParentAfter(b, k)
                  IN cfg_nodes[root].dominator_parent = root


\* C27: after control_flow_graph_tarjan every block has an scc_id and an
\* index_in_scc other than usize::MAX, distinct blocks differ in the pair,
\* control_flow_graph_order gives Equal only for a block and itself,
\* topological_order lists every block exactly once, and the dominator
\* intersection never panics on the unreachable!() arm.
C27_OrderIsTotal ==
    /\ pc # "dom_panic"
    /\ TarjanDone =>
          /\ \A a \in DOMAIN cfg_nodes :
                /\ cfg_nodes[a].scc_id # USIZE_MAX
                /\ cfg_nodes[a].index_in_scc # USIZE_MAX
                /\ \A b \in DOMAIN cfg_nodes :
                      /\ (<<cfg_nodes[a].scc_id, cfg_nodes[a].index_in_scc>>
                             = <<cfg_nodes[b].scc_id, cfg_nodes[b].index_in_scc>>)
                            => a = b
                      /\ (control_flow_graph_order(cfg_nodes, a, b) = "Equal")
                            <=> a = b
                /\ Count(topological_order, a) = 1
          /\ Range(topological_order) = DOMAIN cfg_nodes

\* C27 witness: the dominator pass has returned on a CFG in which two blocks
\* share an scc_id and a block has two different sources, so that the
\* intersection compared two blocks.
C27_Witness ==
    /\ DominanceDone
    /\ \E a, b \in DOMAIN cfg_nodes :
          /\ a # b
          /\ cfg_nodes[a].scc_id = cfg_nodes[b].scc_id
          /\ {a, b} \subseteq Range(cfg_nodes[a].sources)


(***************************************************************************)
(* Sources and destinations                                                *)
(***************************************************************************)
\* C28: after split_into_basic_blocks, with or without the call graph
\* flattened, block a occurs in the sources of block b as often as b occurs
\* in the destinations of a.
C28_SourcesMirrorDestinations ==
    SplitDone =>
        \A a, b \in DOMAIN cfg_nodes :
            Count(cfg_nodes[b].sources, a) = Count(cfg_nodes[a].destinations, b)


\* C28 witness: a conditional jump to the instruction behind it gave its
\* block the same destination twice, and the destination the same source
\* twice.
C28_Witness ==
    /\ pc = "split_done"
    /\ \E a, b \in DOMAIN cfg_nodes :
          /\ Count(cfg_nodes[a].destinations, b) = 2
          /\ Count(cfg_nodes[b].sources, a) = 2
          /\ LastInsn(a).opc \in CondJump
          /\ LastInsn(a).off = 0

\* The call graph was flattened and the block of an EXIT got the return
\* addresses of its function, each of which got the block as a source.
FlattenedReturnReached ==
    /\ pc = "split_done"
    /\ flatten_call_graph
    /\ \E a, b \in DOMAIN cfg_nodes :
          /\ LastInsn(a).opc = "EXIT"
          /\ b \in Range(cfg_nodes[a].destinations)
          /\ a \in Range(cfg_nodes[b].sources)


(***************************************************************************)
(* Keys and ranges of the nodes                                            *)
(***************************************************************************)
\* The destinations the last instruction of block s gives the block: those of
\* its cfg_edges entry after the filter, the fallthrough to the next block
\* when it has no entry and the block starts no function, else none.
DestinationsOfLast(s) ==
    LET last == LastInsn(s)
        edges == FilteredCfgEdges(FALSE)
    IN IF last.ptr \in DOMAIN edges THEN edges[last.ptr]
       ELSE IF NextBlock(s) # None /\ s \notin functions THEN <<NextBlock(s)>>
       ELSE <<>>

\* C29: after split_into_basic_blocks every node has a non-empty instructions
\* range whose first instruction has the key of the node as its ptr, and
\* (the call graph not flattened) the destinations of the node are those of
\* the last instruction of the range.
C29_NodeKeyIsFirstInstruction ==
    SplitDone =>
        \A s \in DOMAIN cfg_nodes :
            /\ cfg_nodes[s].instructions.start < cfg_nodes[s].instructions.end
            /\ instructions[cfg_nodes[s].instructions.start + 1].ptr = s
            /\ ~flatten_call_graph =>
                  cfg_nodes[s].destinations = DestinationsOfLast(s)

====
